---- MODULE Spec2Model ----
(***************************************************************************)
(* A model of the Plurk image backup tool's core: the fetch engine         *)
(* (core/downloader.py), the orchestrator (core/processor.py) and the      *)
(* extractor (core/parser.py).                                             *)
(*                                                                         *)
(* A URL is a sequence of tokens, the separators "/" and "?" being tokens  *)
(* of their own, so that the string operations of the code (split, the     *)
(* netloc of urlparse, the suffix of a path) are computed, not assumed.    *)
(* Durations are in milliseconds.                                          *)
(***************************************************************************)
EXTENDS Integers, Sequences, FiniteSets, TLC

VARIABLES
    fs,          \* the output tree: path -> bytes stored there, Absent when no file
    failCount,   \* _domain_fail_count: netloc -> consecutive failures (a missing key reads 0)
    last,        \* the download_image call that has just returned: what it was given,
                 \* what it found and did, what it returned (NoCall once the caller went on)
    pc,          \* where run_full_backup / process_folder stands
    run,         \* the arguments and locals of the run: do_exif, the folder being
                 \* processed, total_files, file_index, date_folder, the urls left
    stats,       \* the ProcessStats of the process_folder call in progress
    plurks_stats,\* the ProcessStats the first process_folder call returned
    audit,       \* per process_folder call: fetch calls made, and the URL-set sizes of
                 \* the records it went through
    source,      \* the backup files as read so far, kept when the same folders are
                 \* processed again, and the answers of the remote so far
    report,      \* per run of the pipeline: the urls reported downloaded and skipped
    applied,     \* a function of core/parser.py applied on its own: its argument and,
                 \* once it has returned, its result
    streak,      \* history of the download_image calls: for each url, the calls of
                 \* its origin and of its network location that ended in a failure
                 \* response or a recorded exception since the last that downloaded
    names,       \* history of the download_image calls: per folder, the urls
                 \* fetched and the urls that ended downloaded
    gui          \* the window of ui/app.py: the Start button, _running, the
                 \* callbacks queued with after(), the worker threads

vars == <<fs, failCount, last, pc, run, stats, plurks_stats, audit, source, report,
          applied, streak, names, gui>>

\* ---------------------------------------------------------------- bounds

\* A consecutive-failure counter is followed up to this value.
MaxFail == 4

\* A source folder holds at most this many *.js files.
MaxFiles == 1

\* The records a run reads hold at most this many urls to fetch, all files
\* together (the records that hold none are as many as may be).
MaxUrls == 2

\* When the pipeline is run twice on the same folders, what the two folders
\* hold is read through in at most this many readings (of a folder, a file, an
\* item, a file's end).
MaxReadsTwice == 5

\* ... and their records hold at most this many urls to fetch.
MaxUrlsTwice == 1

\* The window launches at most this many workers.
MaxStarts == 3

\* ------------------------------------------------------- program constants

MIN_IMAGE_SIZE == 5120
DELAY_BETWEEN_REQUESTS == 100
BACKOFF_ON_429 == 8000
BACKOFF_ON_REPEAT_FAIL == 6000
REPEAT_FAIL_THRESHOLD == 3
PIEXIF_AVAILABLE == TRUE

\* ------------------------------------------------------------ the universe

UrlA == <<"https:", "/", "/", "img.example.com", "/", "a", ".jpg">>
UrlA2 == <<"http:", "/", "/", "img.example.com", "/", "t", "/", "a", ".jpg">>
UrlA2q == UrlA2 \o <<"?", "v=1">>
UrlB == <<"https:", "/", "/", "cdn.example.org", "/", "b", ".PNG">>
UrlAvatar == <<"https:", "/", "/", "avatars.plurk.com", "/", "1", ".jpg">>

\* A url whose query holds a "/" and ends in an image extension.
UrlQ == <<"https:", "/", "/", "cdn.example.org", "/", "q", ".jpg", "?", "next=", "/", "b", ".PNG">>

\* A url whose query holds a "/" and whose path ends in the file name of UrlA.
UrlQA == <<"https:", "/", "/", "cdn.example.org", "/", "a", ".jpg", "?", "next=", "/", "b", ".PNG">>

\* Urls the extractor has a rule for: the official stickers of the image CDN
\* (as the pattern writes them, with http, with another letter case), the
\* UI-chrome and avatar CDNs, the emoticon path, a medium thumbnail, the
\* thumbnails of the video CDN; and a url of the image CDN it has no rule for.
UrlEmoji == <<"https:", "/", "/", "images.plurk.com", "/", "mx_", "abc", ".png">>
UrlEmojiHttp == <<"http:", "/", "/", "images.plurk.com", "/", "mx_", "abc", ".png">>
UrlEmojiCase == <<"https:", "/", "/", "Images.Plurk.com", "/", "mx_", "abc", ".png">>
UrlImage == <<"https:", "/", "/", "images.plurk.com", "/", "abc", ".jpg">>
UrlEmos == <<"https:", "/", "/", "emos.plurk.com", "/", "e", ".gif">>
UrlStatic == <<"http:", "/", "/", "static.plurk.com", "/", "s", ".png">>
UrlAvatarCase == <<"HTTP:", "/", "/", "AVATARS.PLURK.COM", "/", "1", ".JPG">>
UrlEmoticon == <<"https:", "/", "/", "s.plurk.com", "/", "emoticons", "/", "gold", "/",
                 "g", ".gif">>
UrlMt == <<"https:", "/", "/", "imgs.plurk.com", "/", "p", "_mt", ".jpg">>
UrlYt == <<"https:", "/", "/", "i.ytimg.com", "/", "vi", "/", "default", ".jpg">>
UrlYtHq == <<"https:", "/", "/", "i.ytimg.com", "/", "vi", "/", "hq", "default", ".jpg">>

\* The words of the texts the extractor is applied to on its own, one of them
\* no url, and the texts: up to two words.
ExtractWords ==
    {UrlA, UrlAvatar, UrlEmoji, UrlEmojiHttp, UrlEmojiCase, UrlImage, UrlEmos, UrlStatic,
     UrlAvatarCase, UrlEmoticon, UrlMt, UrlYt, UrlYtHq, <<"hello">>}

ExtractTexts ==
    {<<>>} \cup {<<w>> : w \in ExtractWords}
           \cup {<<v, w>> : v \in ExtractWords, w \in ExtractWords}

\* The urls download_image is called with: by any caller, and by process_folder
\* (which passes what the extractor returns).
EngineUrls == {UrlA, UrlA2q, UrlB}

FetchUrls == EngineUrls \cup {UrlA2, UrlQ}

\* The words (runs of non-blank characters) of a record's text: two urls of
\* one host that end in the same file name, one the extractor discards, and
\* one with a "/" in its query.
Words == {UrlA, UrlA2q, UrlAvatar, UrlQ}

\* The text of a field: empty or one word (an item's text is its content, a
\* blank and its content_raw: up to two words).
Texts == {<<>>} \cup {<<w>> : w \in Words}

\* The dated folders output_root / YYYY-MM-DD.
Folders == {"2024-06-03", "2024-06-04"}

\* Body lengths on both sides of MIN_IMAGE_SIZE.
Sizes == {5119, 5120, 5121}

Absent == -1

\* What requests.get does: a response with a status and a body, or an exception.
\* RequestException stands for the exceptions of the HTTP library other than Timeout
\* and ConnectionError (TooManyRedirects, ChunkedEncodingError, ...), which derive
\* from IOError; Exception for any other exception. NoRequest: no GET was issued.
NoRequest == [kind |-> "none", status |-> 0, size |-> 0]

Responses ==
    [kind : {"response"}, status : {200}, size : Sizes]
    \cup [kind : {"response"}, status : {429, 404}, size : {0}]
    \cup [kind : {"Timeout", "ConnectionError", "RequestException", "Exception"},
          status : {0}, size : {0}]

\* The local environment of one call: whether mkdir works, whether open() and
\* write() work ("none": nothing was opened), and what the metadata codec reports
\* when it is given a JPEG.
Envs == [mkdir : {"ok", "OSError"}, write : {"none", "ok", "open fails", "write fails"},
         exif : BOOLEAN]

\* --------------------------------------------------------- string helpers

\* str.split(sep): the pieces of s between the occurrences of sep.
RECURSIVE split(_, _)
split(s, sep) ==
    IF \A i \in 1..Len(s) : s[i] # sep
    THEN <<s>>
    ELSE LET i == CHOOSE k \in 1..Len(s) : s[k] = sep /\ \A j \in 1..(k - 1) : s[j] # sep
         IN  <<SubSeq(s, 1, i - 1)>> \o split(SubSeq(s, i + 1, Len(s)), sep)

\* str.lower() of a token.
Lower(t) ==
    CASE t = ".PNG" -> ".png"
      [] t = ".JPG" -> ".jpg"
      [] t = "HTTP:" -> "http:"
      [] t = "AVATARS.PLURK.COM" -> "avatars.plurk.com"
      [] t = "Images.Plurk.com" -> "images.plurk.com"
      [] OTHER -> t

\* url.split('/')[-1].split('?')[0]
file_name(url) ==
    LET a == split(url, "/")
    IN  split(a[Len(a)], "?")[1]

\* target_folder / file_name
save_path(url, target_folder) == <<target_folder>> \o file_name(url)

Paths == {save_path(u, d) : u \in FetchUrls, d \in Folders}

\* Path.suffix.lower(): the last token of the name when it is an extension.
suffix_lower(path) ==
    LET t == path[Len(path)]
    IN  IF Len(path) > 2 /\ Lower(t) \in {".jpg", ".jpeg", ".png", ".gif"} THEN Lower(t) ELSE ""

\* A key made of the scheme and the network location.
_extract_domain_origin(url) == <<url[1]>> \o SubSeq(url, 4, 4)

\* urlparse(url).netloc: what follows "//" up to the next "/" or "?".
_extract_domain(url) ==
    IF Len(url) >= 3 /\ url[2] = "/" /\ url[3] = "/"
    THEN LET rest == SubSeq(url, 4, Len(url))
             stops == {i \in 1..Len(rest) : rest[i] \in {"/", "?", "#"}}
             end == IF stops = {} THEN Len(rest) + 1
                    ELSE CHOOSE i \in stops : \A j \in stops : i <= j
         IN  SubSeq(rest, 1, end - 1)
    ELSE <<>>

Domains == {_extract_domain(u) : u \in FetchUrls}

\* -------------------------------------------------------- the fetch engine

DownloadResult(d, s, e, f) ==
    [downloaded |-> d, skipped |-> s, exif_updated |-> e, failed |-> f]

\* What a call leaves behind: the counters, the sleeps it made, the files.
Effect(fc, sleeps) == [failCount |-> fc, sleeps |-> sleeps]

_record_failure_both(domain, fc) ==
    LET count == fc[domain] + 1
        fc2 == [fc EXCEPT ![domain] = count]
    IN  IF count >= REPEAT_FAIL_THRESHOLD
        THEN Effect(fc2, <<BACKOFF_ON_REPEAT_FAIL, DELAY_BETWEEN_REQUESTS>>)
        ELSE Effect(fc2, <<DELAY_BETWEEN_REQUESTS>>)

_record_failure_once(domain, fc) ==
    LET count == fc[domain] + 1
        fc2 == [fc EXCEPT ![domain] = count]
    IN  IF count = REPEAT_FAIL_THRESHOLD
        THEN Effect(fc2, <<BACKOFF_ON_REPEAT_FAIL>>)
        ELSE Effect(fc2, <<>>)

_record_failure(domain, fc) ==
    LET count == fc[domain] + 1
        fc2 == [fc EXCEPT ![domain] = count]
    IN  IF count >= REPEAT_FAIL_THRESHOLD
        THEN Effect(fc2, <<BACKOFF_ON_REPEAT_FAIL>>)
        ELSE Effect(fc2, <<>>)

_record_success_all(domain, fc) ==
    Effect([d \in DOMAIN fc |-> 0], <<DELAY_BETWEEN_REQUESTS>>)

_record_success_keep(domain, fc) ==
    Effect(fc, <<DELAY_BETWEEN_REQUESTS>>)

_record_success(domain, fc) ==
    Effect([fc EXCEPT ![domain] = 0], <<DELAY_BETWEEN_REQUESTS>>)

\* write_exif_time: FALSE for a file that is no JPEG or without the codec, else
\* what the codec reports (TRUE when it wrote, FALSE when the time was right or
\* the write failed).
write_exif_time(path, env) ==
    IF ~PIEXIF_AVAILABLE \/ suffix_lower(path) \notin {".jpg", ".jpeg"}
    THEN FALSE
    ELSE env.exif

\* The outcome of a call: raised (mkdir failed, nothing is returned), else the
\* result, with the new files and counters and what the call did on the way.
Outcome(raised, result, f, eff, requests, exifCalls) ==
    [raised |-> raised, result |-> result, fs |-> f,
     failCount |-> eff.failCount, sleeps |-> eff.sleeps,
     requests |-> requests, exifCalls |-> exifCalls]

\* A body of this length is rejected as too small (the test of download_image).
TooSmall_strict(n) == n < MIN_IMAGE_SIZE

TooSmall(n) == n <= MIN_IMAGE_SIZE

Failed_repaired(f, eff) ==
    Outcome(FALSE, DownloadResult(FALSE, FALSE, TRUE, TRUE), f, eff, 1, 0)

Failed(f, eff) ==
    Outcome(FALSE, DownloadResult(FALSE, FALSE, FALSE, TRUE), f, eff, 1, 0)

\* The HTTP 429 branch: the counter is incremented in place, then the 429 backoff.
On429_stacked(domain, f, fc) ==
    Failed(f, Effect(_record_failure(domain, fc).failCount,
                     _record_failure(domain, fc).sleeps \o <<BACKOFF_ON_429>>))

On429_uncounted(domain, f, fc) ==
    Failed(f, Effect(fc, <<BACKOFF_ON_429>>))

On429(domain, f, fc) ==
    Failed(f, Effect([fc EXCEPT ![domain] = fc[domain] + 1], <<BACKOFF_ON_429>>))

\* The branch of a 200 response whose body is too small.
OnTooSmall_success(domain, f, fc) ==
    Outcome(FALSE, DownloadResult(FALSE, TRUE, FALSE, FALSE), f,
            _record_success(domain, fc), 1, 0)

OnTooSmall(domain, f, fc) ==
    Outcome(FALSE, DownloadResult(FALSE, TRUE, FALSE, FALSE), f, Effect(fc, <<>>), 1, 0)

\* The existing-file branch: no request, the codec only if do_exif.
OnExists_again(path, do_exif, env, f, fc) ==
    Outcome(FALSE, DownloadResult(TRUE, FALSE, FALSE, FALSE),
            f, Effect(fc, <<DELAY_BETWEEN_REQUESTS>>), 1, 0)

OnExists_always(path, do_exif, env, f, fc) ==
    Outcome(FALSE, DownloadResult(FALSE, TRUE, write_exif_time(path, env), FALSE),
            f, Effect(fc, <<>>), 0, 1)

OnExists(path, do_exif, env, f, fc) ==
    Outcome(FALSE,
            DownloadResult(FALSE, TRUE,
                           IF do_exif THEN write_exif_time(path, env) ELSE FALSE, FALSE),
            f, Effect(fc, <<>>), 0, IF do_exif THEN 1 ELSE 0)

\* The handlers of the try block, by the class of what was raised. The classes
\* of the HTTP library other than Timeout and ConnectionError derive from
\* IOError, that is OSError, and are taken by its handler.
OnException_penalise(kind, domain, f, fc) ==
    Failed(f, _record_failure(domain, fc))

OnException_bare(kind, domain, f, fc) ==
    IF kind \in {"RequestException", "OSError"}
    THEN Outcome(FALSE, DownloadResult(FALSE, FALSE, FALSE, FALSE), f,
                 Effect(fc, <<>>), 1, 0)
    ELSE Failed(f, _record_failure(domain, fc))

OnException(kind, domain, f, fc) ==
    CASE kind = "Timeout" -> Failed(f, _record_failure(domain, fc))
      [] kind = "ConnectionError" -> Failed(f, _record_failure(domain, fc))
      [] kind \in {"RequestException", "OSError"} -> Failed(f, Effect(fc, <<>>))
      [] OTHER -> Failed(f, _record_failure(domain, fc))

\* open(save_path, "wb") and f.write(res.content), then the codec and
\* _record_success. open creates the file, so a write that fails after it leaves
\* an empty file behind.
OnWrite(path, size, do_exif, env, domain, f, fc) ==
    CASE env.write = "open fails" -> OnException("OSError", domain, f, fc)
      [] env.write = "write fails" ->
            OnException("OSError", domain, [f EXCEPT ![path] = 0], fc)
      [] OTHER ->
            Outcome(FALSE,
                    DownloadResult(TRUE, FALSE,
                                   IF do_exif THEN write_exif_time(path, env) ELSE FALSE,
                                   FALSE),
                    [f EXCEPT ![path] = size],
                    _record_success(domain, fc), 1, IF do_exif THEN 1 ELSE 0)

download_image(url, target_folder, do_exif, resp, env, f, fc) ==
    LET path == save_path(url, target_folder)
        domain == _extract_domain(url)
    IN  IF env.mkdir # "ok"
        THEN Outcome(TRUE, DownloadResult(FALSE, FALSE, FALSE, FALSE), f,
                     Effect(fc, <<>>), 0, 0)
        ELSE IF f[path] # Absent
        THEN OnExists(path, do_exif, env, f, fc)
        ELSE IF resp.kind # "response"
        THEN OnException(resp.kind, domain, f, fc)
        ELSE IF resp.status = 429
        THEN On429(domain, f, fc)
        ELSE IF resp.status # 200
        THEN Failed(f, _record_failure(domain, fc))
        ELSE IF TooSmall(resp.size)
        THEN OnTooSmall(domain, f, fc)
        ELSE OnWrite(path, resp.size, do_exif, env, domain, f, fc)

\* ------------------------------------------------------------ the extractor

ImageExts == {".jpg", ".png", ".gif", ".jpeg"}

\* Whether the lowercased needle occurs in the lowercased url.
Contains(url, needle) ==
    \E i \in 1..(Len(url) - Len(needle) + 1) :
        \A k \in 1..Len(needle) : Lower(url[i + k - 1]) = needle[k]

\* PLURK_EMOJI_PATTERN.search(url): case-sensitive, on the url as written.
PLURK_EMOJI_PATTERN(url) ==
    LET needle == <<"https:", "/", "/", "images.plurk.com", "/", "mx_">>
    IN  \E i \in 1..(Len(url) - Len(needle) + 1) :
            \A k \in 1..Len(needle) : url[i + k - 1] = needle[k]

\* GENERAL_IMAGE_PATTERN on one word: http(s):// then at least one character, up
\* to the last image extension of the word (the match is greedy), case ignored.
\* <<>> when the word has no match.
GENERAL_IMAGE_PATTERN(word) ==
    LET exts == {i \in 5..Len(word) : Lower(word[i]) \in ImageExts}
    IN  IF /\ Len(word) >= 5
           /\ Lower(word[1]) \in {"http:", "https:"}
           /\ word[2] = "/" /\ word[3] = "/"
           /\ exts # {}
        THEN SubSeq(word, 1, CHOOSE i \in exts : \A j \in exts : j <= i)
        ELSE <<>>

Discarded(url) ==
    \/ Contains(url, <<"emos.plurk.com">>) \/ Contains(url, <<"static.plurk.com">>)
    \/ Contains(url, <<"avatars.plurk.com">>)
    \/ Contains(url, <<"s.plurk.com", "/", "emoticons">>)
    \/ Contains(url, <<"imgs.plurk.com">>) /\ Contains(url, <<"_mt", ".jpg">>)
    \/ Contains(url, <<"i.ytimg.com">>) /\ Contains(url, <<"default", ".jpg">>)
    \/ Contains(url, <<"images.plurk.com">>) /\ PLURK_EMOJI_PATTERN(url)

\* The urls of a text as a list, one per word that matches, a repeated url
\* repeated (what a list instead of a set would hold).
AllMatches(text) ==
    SelectSeq([i \in 1..Len(text) |-> GENERAL_IMAGE_PATTERN(text[i])],
              LAMBDA u : u # <<>> /\ ~Discarded(u))

get_all_valid_images(text) ==
    {AllMatches(text)[i] : i \in 1..Len(AllMatches(text))}

\* --------------------------------------------------------------- the parser

\* The text of a backup file is a sequence of tokens: a blank, "=", ";", the
\* brackets and the comma of a JSON array, an element of the array ("item": an
\* object, "7": a number), a JSON value that is no array ("obj"), and the name
\* before the "=".
Blank == " "

Elements == {"item", "7"}

\* str.strip()
RECURSIVE strip(_)
strip(s) ==
    IF s = <<>> THEN s
    ELSE IF Head(s) = Blank THEN strip(Tail(s))
    ELSE IF s[Len(s)] = Blank THEN strip(SubSeq(s, 1, Len(s) - 1))
    ELSE s

\* str.find(c): the first index of c, 0 when there is none (-1 in the code).
find(s, c) ==
    IF \A i \in 1..Len(s) : s[i] # c THEN 0
    ELSE CHOOSE i \in 1..Len(s) : s[i] = c /\ \A j \in 1..(i - 1) : s[j] # c

\* json.loads: blanks between tokens do not count; an array is "[", elements
\* with commas between them, "]"; anything else that is no single value is a
\* JSONDecodeError.
json_loads(s) ==
    LET t == SelectSeq(s, LAMBDA x : x # Blank)
        inner == SubSeq(t, 2, Len(t) - 1)
    IN  IF Len(t) = 1 /\ t[1] \in Elements \cup {"obj"}
        THEN [error |-> FALSE, list |-> FALSE, value |-> <<>>]
        ELSE IF /\ Len(t) >= 2 /\ t[1] = "[" /\ t[Len(t)] = "]"
                /\ (inner = <<>> \/ Len(inner) % 2 = 1)
                /\ \A i \in 1..Len(inner) :
                      IF i % 2 = 1 THEN inner[i] \in Elements ELSE inner[i] = ","
        THEN [error |-> FALSE, list |-> TRUE,
              value |-> [k \in 1..((Len(inner) + 1) \div 2) |-> inner[2 * k - 1]]]
        ELSE [error |-> TRUE, list |-> FALSE, value |-> <<>>]

\* What parse_js_content gives its caller: a list, or an exception.
Parsed(raised, value) == [raised |-> raised, value |-> value]

\* The handlers of parse_js_content, by the class of what was raised: each
\* returns the empty list.
ParseHandlers_narrow(kind) ==
    IF kind \in {"JSONDecodeError", "OSError"} THEN Parsed(FALSE, <<>>)
    ELSE Parsed(TRUE, <<>>)

ParseHandlers(kind) ==
    CASE kind = "JSONDecodeError" -> Parsed(FALSE, <<>>)
      [] kind = "OSError" -> Parsed(FALSE, <<>>)
      [] OTHER -> Parsed(FALSE, <<>>)

\* raw_text[eq_index + 1:].strip()
json_part(raw_text) == strip(SubSeq(raw_text, find(raw_text, "=") + 1, Len(raw_text)))

\* if json_part.endswith(';'): json_part = json_part[:-1].strip()
DropSemicolon(part) ==
    IF part # <<>> /\ part[Len(part)] = ";"
    THEN strip(SubSeq(part, 1, Len(part) - 1))
    ELSE part

\* if not isinstance(result, list): return []
ListOnly(result) == Parsed(FALSE, IF result.list THEN result.value ELSE <<>>)

\* parse_js_content of a file: open and read may raise (OSError, and
\* UnicodeDecodeError for a file that is no utf-8), then the text is parsed.
parse_js_content(file) ==
    IF file.read # "ok" THEN ParseHandlers(file.read)
    ELSE LET raw_text == strip(file.text)
         IN  IF find(raw_text, "=") = 0 THEN Parsed(FALSE, <<>>)
             ELSE LET result == json_loads(DropSemicolon(json_part(raw_text)))
                  IN  IF result.error THEN ParseHandlers("JSONDecodeError")
                      ELSE ListOnly(result)

\* The backup files the parser is applied to on its own: what stands before
\* the "=", the "=", the JSON text, and what follows it.
FilePrefixes == {<<>>, <<"var BackupData">>, <<Blank, "var BackupData", Blank>>}

FileEquals == {<<>>, <<"=">>, <<"=", Blank>>}

FileBodies ==
    { <<>>, <<"[", "]">>, <<"[", "item", "]">>, <<"[", "item", ",", "7", "]">>,
      <<"[", Blank, "item", Blank, ",", "item", "]">>,
      <<"[", "item">>, <<"[", "item", ",", "]">>, <<"item", "]">>,
      <<"obj">>, <<"7">>, <<"=", "[", "item", "]">> }

FileSuffixes == {<<>>, <<";">>, <<";", Blank>>, <<Blank, ";">>, <<";", ";">>}

Files ==
    {[read |-> "ok", text |-> p \o e \o b \o x] :
        p \in FilePrefixes, e \in FileEquals, b \in FileBodies, x \in FileSuffixes}
    \cup {[read |-> r, text |-> <<>>] : r \in {"OSError", "UnicodeDecodeError"}}

\* --------------------------------------------------------- the orchestrator

ProcessStats(d, s, e, f) ==
    [downloaded |-> d, skipped |-> s, exif_updated |-> e, failed |-> f]

ZeroStats == ProcessStats(0, 0, 0, 0)

\* ProcessStats.merge
merge_last(self, other) == other

merge(self, other) ==
    ProcessStats(self.downloaded + other.downloaded, self.skipped + other.skipped,
                 self.exif_updated + other.exif_updated, self.failed + other.failed)

\* The posted field of an item: a string, "" when the key is missing, or a
\* value that is no string.
Weekdays == {"Mon", "Tue", "Wed", "Thu", "Fri", "Sat", "Sun"}

MonthNumber(m) ==
    CASE m = "Jun" -> "06"
      [] m = "Jul" -> "07"
      [] OTHER -> ""

PostedValues ==
    { <<"str", "Mon", ",", "03", "Jun", "2024", "10:15:00", "GMT">>,
      <<"str", "Tue", ",", "04", "Jun", "2024", "23:59:59", "GMT">>,
      <<"str", "2024-06-03", "10:15:00">>,
      <<"str">>,
      <<"int", "20240603">> }

\* datetime.strptime(posted, "%a, %d %b %Y %H:%M:%S GMT") and
\* dt.strftime("%Y-%m-%d"): the folder name, "ValueError" or "TypeError".
strptime_strftime(posted) ==
    IF posted[1] # "str" THEN "TypeError"
    ELSE IF /\ Len(posted) = 8
            /\ posted[2] \in Weekdays /\ posted[3] = ","
            /\ posted[4] \in {"03", "04"}
            /\ MonthNumber(posted[5]) # ""
            /\ posted[6] = "2024" /\ posted[8] = "GMT"
    THEN posted[6] \o "-" \o MonthNumber(posted[5]) \o "-" \o posted[4]
    ELSE "ValueError"

\* The content and content_raw fields of an item: a string, None or missing,
\* or a truthy value that is no string.
FieldValues == [kind : {"str"}, text : Texts] \cup {[kind |-> "none", text |-> <<>>],
                                                    [kind |-> "int", text |-> <<>>]}

\* (item.get(k, "") or ""): the text of a field that is a string or None.
or_empty(field) == IF field.kind = "str" THEN field.text ELSE <<>>

\* An element of the decoded array: a dict with these fields, or no dict.
Items == [dict : {TRUE}, posted : PostedValues, content : FieldValues,
          content_raw : FieldValues]
         \cup {[dict |-> FALSE, posted |-> <<"str">>,
                content |-> [kind |-> "none", text |-> <<>>],
                content_raw |-> [kind |-> "none", text |-> <<>>]]}

\* What process_folder does with one item: "raise" (an exception it does not
\* catch), "skip" (the date does not parse), or the folder and the urls; and
\* the posted value it read (<<"nodict">> when the item has no get).
Step(act, folder, urls, posted) ==
    [act |-> act, folder |-> folder, urls |-> urls, posted |-> posted]

ItemStep(item) ==
    IF ~item.dict THEN Step("raise", "", {}, <<"nodict">>)
    ELSE IF strptime_strftime(item.posted) = "TypeError"
    THEN Step("raise", "", {}, item.posted)
    ELSE IF strptime_strftime(item.posted) = "ValueError"
    THEN Step("skip", "", {}, item.posted)
    ELSE IF item.content.kind = "int" \/ item.content_raw.kind = "int"
    THEN Step("raise", "", {}, item.posted)
    ELSE Step("fetch", strptime_strftime(item.posted),
              get_all_valid_images(or_empty(item.content) \o or_empty(item.content_raw)),
              item.posted)

\* ItemStep, tabulated, and what it makes of the items there are.
ItemSteps == [item \in Items |-> ItemStep(item)]

Steps == {ItemSteps[item] : item \in Items}

\* The same for the folders the pipeline is run on twice, whose records hold
\* the two urls of one file name.
StepsTwice == {step \in Steps : step.urls \subseteq {UrlA, UrlA2}}

\* The counters after one result: the if / elif chain of process_folder.
Count_noskip(st, result) ==
    LET a == IF result.downloaded THEN [st EXCEPT !.downloaded = @ + 1]
             ELSE IF result.failed THEN [st EXCEPT !.failed = @ + 1]
             ELSE st
    IN  IF result.exif_updated THEN [a EXCEPT !.exif_updated = @ + 1] ELSE a

Count(st, result) ==
    LET a == IF result.downloaded THEN [st EXCEPT !.downloaded = @ + 1]
             ELSE IF result.skipped THEN [st EXCEPT !.skipped = @ + 1]
             ELSE IF result.failed THEN [st EXCEPT !.failed = @ + 1]
             ELSE st
    IN  IF result.exif_updated THEN [a EXCEPT !.exif_updated = @ + 1] ELSE a

\* The messages process_folder sends to on_log for one result.
Logged_skipnotice(result) ==
    (IF result.downloaded THEN <<"downloaded">>
     ELSE IF result.skipped THEN <<"skipped">>
     ELSE IF result.failed THEN <<"failed">>
     ELSE <<>>)
    \o (IF result.exif_updated THEN <<"exif">> ELSE <<>>)

Logged(result) ==
    (IF result.downloaded THEN <<"downloaded">>
     ELSE IF result.skipped THEN <<>>
     ELSE IF result.failed THEN <<"failed">>
     ELSE <<>>)
    \o (IF result.exif_updated THEN <<"exif">> ELSE <<>>)

\* The calls of on_log and on_progress of a process_folder call: msgs are sent
\* to on_log (events counts them, said holds those of the latest step).
NoAudit == [calls |-> 0, expected |-> 0, events |-> 0, said |-> <<>>, progress |-> <<>>]

Say(a, msgs) == [a EXCEPT !.events = @ + Len(msgs), !.said = msgs]

\* source_dir does not exist: one notice, and the empty statistics.
OnMissingDir_silent(a) == Say(a, <<>>)

OnMissingDir(a) == Say(a, <<"notfound">>)

\* A file that parsed to no items is passed over by continue.
OnEmptyFile(a, file_index, total_files) == Say(a, <<>>)

\* on_progress(file_index + 1, total_files) after the items of a file.
OnFileDone(a, file_index, total_files) ==
    [Say(a, <<>>) EXCEPT !.progress = Append(@, <<file_index + 1, total_files>>)]

\* ------------------------------------------------------------------ state

NoCall == [made |-> FALSE]

\* The record of a call: its arguments, the state it found, what it got, and
\* its outcome.
CallRecord(url, target_folder, do_exif, resp, env, f, fc, out) ==
    [made |-> TRUE, url |-> url, folder |-> target_folder,
     path |-> save_path(url, target_folder),
     domain |-> _extract_domain(url), do_exif |-> do_exif,
     existed |-> f[save_path(url, target_folder)] # Absent,
     resp |-> resp, write |-> env.write, codec |-> env.exif,
     before |-> fc, fsBefore |-> f, out |-> out]

\* The answers of the remote and of the disk that a call in this state consults:
\* no response without a request, no write without a body to keep, no codec
\* answer unless the codec is given a JPEG.
Consulted(url, target_folder, do_exif, resp, env, f) ==
    LET path == save_path(url, target_folder)
        requested == env.mkdir = "ok" /\ f[path] = Absent
        writes == requested /\ resp.kind = "response" /\ resp.status = 200
                  /\ ~TooSmall(resp.size)
        codec == /\ env.mkdir = "ok" /\ do_exif /\ PIEXIF_AVAILABLE
                 /\ suffix_lower(path) \in {".jpg", ".jpeg"}
                 /\ (f[path] # Absent \/ (writes /\ env.write = "ok"))
    IN  /\ (resp = NoRequest) <=> ~requested
        /\ (env.write = "none") <=> ~writes
        /\ env.exif => codec

NoStep == Step("none", "", {}, <<"none">>)

\* What is read from the source folders: whether a folder exists and how many
\* files it holds, whether a file parses to a non-empty list, the next item of
\* the list (as what process_folder makes of it), the end of the list.
Read(k, b, n, step) == [k |-> k, b |-> b, n |-> n, step |-> step]

NoRun == [do_exif |-> FALSE, dirNo |-> 0, dir |-> "", total_files |-> 0, file_index |-> 0,
          inFile |-> 0, read |-> 0, posted |-> <<"none">>, folder |-> "", urls |-> {}]

NoReport == [runs |-> 0, downloaded1 |-> {}, diskFailed1 |-> FALSE,
             downloaded2 |-> {}, skipped2 |-> {}]

NotApplied == [fn |-> "none"]

\* A function is applied to arg; out is its result once done.
Applied(fn, arg, done, out) == [fn |-> fn, arg |-> arg, done |-> done, out |-> out]

\* No call is in the history.
NoStreak == [origin |-> [u \in FetchUrls |-> 0], netloc |-> [u \in FetchUrls |-> 0],
             limited |-> [u \in FetchUrls |-> 0]]

NoNames == [fetched |-> {}, downloaded |-> {}]

\* The window as App.__init__ leaves it: the button enabled, nothing running.
NoGui == [button |-> "normal", running |-> FALSE, queue |-> <<>>, workers |-> <<>>]

InitWith(mode) ==
    /\ applied = NotApplied
    /\ streak = NoStreak
    /\ names = NoNames
    /\ gui = NoGui
    /\ fs = [p \in Paths |-> Absent]
    /\ failCount = [d \in Domains |-> 0]
    /\ last = NoCall
    /\ pc = "idle"
    /\ run = NoRun
    /\ stats = ZeroStats
    /\ plurks_stats = ZeroStats
    /\ audit = NoAudit
    /\ source = [mode |-> mode, tape |-> <<>>, pos |-> 1,
                 remote |-> [u \in FetchUrls |-> NoRequest]]
    /\ report = NoReport

Init == InitWith("free")

\* Reading v from the source: anything on a first reading, and what was read
\* the first time when the same folders are read again.
Draw(v, src) ==
    CASE src.mode = "free" -> src
      [] src.mode = "record" -> [src EXCEPT !.tape = Append(@, v)]
      [] OTHER -> [src EXCEPT !.pos = @ + 1]

\* more is the least number of readings that are left after this one.
CanDraw(v, more) ==
    CASE source.mode = "free" -> TRUE
      [] source.mode = "record" -> Len(source.tape) + 1 + more <= MaxReadsTwice
      [] OTHER -> source.pos <= Len(source.tape) /\ source.tape[source.pos] = v

\* The urls to fetch of the records read so far.
RECURSIVE TapeUrls(_)
TapeUrls(tape) ==
    IF tape = <<>> THEN 0
    ELSE Cardinality(Head(tape).step.urls) + TapeUrls(Tail(tape))

\* The least number of readings after the file at hand: one for each later
\* file of the folder, and one for the second folder.
LaterReads == (run.total_files - run.file_index - 1) + (IF run.dirNo = 1 THEN 1 ELSE 0)

\* The answers the remote may give for url: any, or the one it gave before when
\* its answers are held fixed.
Answers(url) ==
    IF source.mode = "free" \/ source.remote[url] = NoRequest
    THEN Responses \cup {NoRequest}
    ELSE {source.remote[url], NoRequest}

\* One call of download_image, with an answer of the remote and of the local disk.
Call(url, target_folder, do_exif) ==
    \E resp \in Answers(url), env \in Envs :
        /\ Consulted(url, target_folder, do_exif, resp, env, fs)
        /\ LET out == download_image(url, target_folder, do_exif, resp, env, fs, failCount)
           IN  /\ \A d \in Domains : out.failCount[d] <= MaxFail
               /\ fs' = out.fs
               /\ failCount' = out.failCount
               /\ last' = CallRecord(url, target_folder, do_exif, resp, env,
                                     fs, failCount, out)

\* ------------------------------------------------- the fetch engine alone

\* Any caller, any arguments.
Fetch ==
    /\ pc = "idle" /\ ~last.made
    /\ \E url \in EngineUrls, folder \in Folders, do_exif \in BOOLEAN :
          Call(url, folder, do_exif)
    /\ UNCHANGED <<pc, run, stats, plurks_stats, audit, source, report, applied, streak,
                   names, gui>>

\* The caller takes the result and goes on.
Return ==
    /\ pc = "idle" /\ last.made
    /\ last' = NoCall
    /\ UNCHANGED <<fs, failCount, pc, run, stats, plurks_stats, audit, source, report,
                   applied, streak, names, gui>>

NextFetch == Fetch \/ Return

SpecFetch == Init /\ [][NextFetch]_vars

\* ------------------------------------------------------------ the pipeline

\* run_full_backup up to its first process_folder call: output_root.mkdir may
\* raise.
StartRun ==
    /\ pc = "idle"
    /\ \E do_exif \in BOOLEAN, mkdir \in {"ok", "OSError"} :
          /\ pc' = IF mkdir = "ok" THEN "enter" ELSE "raised"
          /\ run' = [NoRun EXCEPT !.do_exif = do_exif, !.dirNo = 1]
    /\ stats' = ZeroStats
    /\ audit' = NoAudit
    /\ UNCHANGED <<fs, failCount, last, plurks_stats, source, report, applied, streak, names, gui>>

\* process_folder up to its loop: a source_dir that does not exist returns the
\* empty statistics.
EnterFolder ==
    /\ pc = "enter"
    /\ \E exists \in BOOLEAN, n \in 0..MaxFiles :
          LET v == Read("dir", exists, IF exists THEN n ELSE 0, NoStep)
          IN  /\ exists \/ n = 0
              /\ CanDraw(v, v.n + (IF run.dirNo = 1 THEN 1 ELSE 0))
              /\ source' = Draw(v, source)
              /\ pc' = IF exists THEN "files" ELSE "returned"
              /\ run' = [run EXCEPT !.total_files = v.n, !.file_index = 0,
                                    !.dir = IF exists THEN "exists" ELSE "missing"]
              /\ audit' = IF exists THEN Say(audit, <<>>) ELSE OnMissingDir(audit)
    /\ UNCHANGED <<fs, failCount, last, stats, plurks_stats, report, applied, streak, names, gui>>

\* The next file: parse_js_content gives an empty list (the file is passed
\* over by continue) or a list of items.
NextFile ==
    /\ pc = "files" /\ run.file_index < run.total_files
    /\ \E nonempty \in BOOLEAN :
          LET v == Read("file", nonempty, 0, NoStep)
          IN  /\ CanDraw(v, LaterReads + (IF nonempty THEN 2 ELSE 0))
              /\ source' = Draw(v, source)
              /\ pc' = IF nonempty THEN "items" ELSE "files"
              /\ run' = IF nonempty THEN [run EXCEPT !.inFile = 0]
                        ELSE [run EXCEPT !.file_index = @ + 1]
              /\ audit' = IF nonempty THEN Say(audit, <<"file">>)
                          ELSE OnEmptyFile(audit, run.file_index, run.total_files)
    /\ UNCHANGED <<fs, failCount, last, stats, plurks_stats, report, applied, streak, names, gui>>

\* The next item of the file.
NextItem ==
    /\ pc = "items"
    /\ \E step \in (IF source.mode = "free" THEN Steps ELSE StepsTwice) :
          LET v == Read("item", FALSE, 0, step)
          IN  /\ source.mode = "free" =>
                    run.read + Cardinality(step.urls) <= MaxUrls
              /\ source.mode = "record" =>
                    TapeUrls(source.tape) + Cardinality(step.urls) <= MaxUrlsTwice
              /\ CanDraw(v, IF step.act = "raise" THEN 0 ELSE LaterReads + 1)
              /\ source' = Draw(v, source)
              /\ pc' = CASE step.act = "raise" -> "raised"
                         [] step.act = "fetch" /\ step.urls # {} -> "urls"
                         [] OTHER -> "items"
              /\ run' = [run EXCEPT !.inFile = 1,
                                    !.read = @ + Cardinality(step.urls),
                                    !.posted = step.posted,
                                    !.folder = step.folder, !.urls = step.urls]
              /\ audit' = [Say(audit, <<>>) EXCEPT
                              !.expected = @ + Cardinality(step.urls)]
    /\ UNCHANGED <<fs, failCount, last, stats, plurks_stats, report, applied, streak, names, gui>>

\* The file's items are through: on_progress, then the next file.
EndItems ==
    /\ pc = "items" /\ run.inFile >= 1
    /\ LET v == Read("end", FALSE, 0, NoStep)
       IN  /\ CanDraw(v, LaterReads)
           /\ source' = Draw(v, source)
    /\ pc' = "files"
    /\ run' = [run EXCEPT !.file_index = @ + 1, !.folder = "", !.inFile = 0,
                          !.posted = <<"none">>]
    /\ audit' = OnFileDone(audit, run.file_index, run.total_files)
    /\ UNCHANGED <<fs, failCount, last, stats, plurks_stats, report, applied, streak, names, gui>>

\* download_image for one of the urls of the item, in the set's order.
FetchUrl ==
    /\ pc = "urls" /\ ~last.made
    /\ \E url \in run.urls :
          /\ Call(url, run.folder, run.do_exif)
          /\ source' = IF source.mode # "free" /\ last'.resp # NoRequest
                       THEN [source EXCEPT !.remote[url] = last'.resp]
                       ELSE source
    /\ pc' = IF last'.out.raised THEN "raised" ELSE "urls"
    /\ audit' = [Say(audit, <<>>) EXCEPT !.calls = @ + 1]
    /\ UNCHANGED <<run, stats, plurks_stats, report, applied, streak, names, gui>>

\* The urls a run reported, kept when the pipeline is run twice.
Reported(rep, call) ==
    LET r == call.out.result
    IN  IF rep.runs = 0
        THEN [rep EXCEPT
                !.downloaded1 = IF r.downloaded THEN @ \cup {call.url} ELSE @,
                !.diskFailed1 = @ \/ call.write \in {"open fails", "write fails"}]
        ELSE [rep EXCEPT
                !.downloaded2 = IF r.downloaded THEN @ \cup {call.url} ELSE @,
                !.skipped2 = IF r.skipped THEN @ \cup {call.url} ELSE @]

\* The result of the call is counted.
Account ==
    /\ pc = "urls" /\ last.made
    /\ stats' = Count(stats, last.out.result)
    /\ run' = [run EXCEPT !.urls = @ \ {last.url}]
    /\ pc' = IF run.urls \ {last.url} = {} THEN "items" ELSE "urls"
    /\ report' = IF source.mode = "free" THEN report ELSE Reported(report, last)
    /\ audit' = Say(audit, Logged(last.out.result))
    /\ last' = NoCall
    /\ UNCHANGED <<fs, failCount, plurks_stats, source, applied, streak, names, gui>>

\* process_folder returns its statistics.
ReturnFolder ==
    /\ pc = "files" /\ run.file_index = run.total_files
    /\ pc' = "returned"
    /\ UNCHANGED <<fs, failCount, last, run, stats, plurks_stats, audit, source, report,
                   applied, streak, names, gui>>

\* run_full_backup goes on to the second folder.
NextFolder ==
    /\ pc = "returned" /\ run.dirNo = 1
    /\ plurks_stats' = stats
    /\ stats' = ZeroStats
    /\ audit' = NoAudit
    /\ run' = [run EXCEPT !.dirNo = 2, !.dir = "", !.total_files = 0, !.file_index = 0]
    /\ pc' = "enter"
    /\ UNCHANGED <<fs, failCount, last, source, report, applied, streak, names, gui>>

\* run_full_backup merges the second result into the first and returns it.
Merge ==
    /\ pc = "returned" /\ run.dirNo = 2
    /\ plurks_stats' = merge(plurks_stats, stats)
    /\ pc' = "done"
    /\ report' = IF source.mode = "free" THEN report ELSE [report EXCEPT !.runs = @ + 1]
    /\ UNCHANGED <<fs, failCount, last, run, stats, audit, source, applied, streak, names, gui>>

Next ==
    \/ StartRun \/ EnterFolder \/ NextFile \/ NextItem \/ EndItems
    \/ FetchUrl \/ Account \/ ReturnFolder \/ NextFolder \/ Merge

Spec == Init /\ [][Next]_vars

\* --------------------------------------------------- the pipeline run twice

\* The pipeline is run again on the same folders and the same output root,
\* the remote answering each url as it did.
Rerun ==
    /\ pc = "done" /\ source.mode = "record"
    /\ \E do_exif \in BOOLEAN :
          run' = [NoRun EXCEPT !.do_exif = do_exif, !.dirNo = 1]
    /\ pc' = "enter"
    /\ source' = [source EXCEPT !.mode = "replay"]
    /\ stats' = ZeroStats
    /\ plurks_stats' = ZeroStats
    /\ audit' = NoAudit
    /\ UNCHANGED <<fs, failCount, last, report, applied, streak, names, gui>>

InitTwice == InitWith("record")

NextTwice == Next \/ Rerun

SpecTwice == InitTwice /\ [][NextTwice]_vars

\* ------------------------------------------------- the extractor on its own

\* Nothing but the call of the extractor happens.
Quiet ==
    /\ streak = NoStreak
    /\ names = NoNames
    /\ gui = NoGui
    /\ fs = [p \in Paths |-> Absent]
    /\ failCount = [d \in Domains |-> 0]
    /\ last = NoCall
    /\ pc = "idle"
    /\ run = NoRun
    /\ stats = ZeroStats
    /\ plurks_stats = ZeroStats
    /\ audit = NoAudit
    /\ source = [mode |-> "free", tape |-> <<>>, pos |-> 1,
                 remote |-> [u \in FetchUrls |-> NoRequest]]
    /\ report = NoReport

InitExtract ==
    /\ Quiet
    /\ applied \in {Applied("get_all_valid_images", text, FALSE, {}) : text \in ExtractTexts}

\* get_all_valid_images(text) returns.
Extract ==
    /\ applied.fn = "get_all_valid_images" /\ ~applied.done
    /\ applied' = [applied EXCEPT !.done = TRUE, !.out = get_all_valid_images(applied.arg)]
    /\ UNCHANGED <<fs, failCount, last, pc, run, stats, plurks_stats, audit, source, report, streak,
                   names, gui>>

NextExtract == Extract

SpecExtract == InitExtract /\ [][NextExtract]_vars

\* ---------------------------------------------------- the parser on its own

InitParse ==
    /\ Quiet
    /\ applied \in {Applied("parse_js_content", file, FALSE, Parsed(FALSE, <<>>)) :
                        file \in Files}

\* parse_js_content(file) returns, or raises.
Parse ==
    /\ applied.fn = "parse_js_content" /\ ~applied.done
    /\ applied' = [applied EXCEPT !.done = TRUE, !.out = parse_js_content(applied.arg)]
    /\ UNCHANGED <<fs, failCount, last, pc, run, stats, plurks_stats, audit, source, report, streak,
                   names, gui>>

NextParse == Parse

SpecParse == InitParse /\ [][NextParse]_vars

\* ------------------------------------------------------------- the claims

Flags(r) == {k \in {"downloaded", "skipped", "failed"} : r[k]}

\* The call that has just returned did return (mkdir did not raise).
Returned == last.made /\ ~last.out.raised

\* The call issued its GET and got a response with this status.
Got(status) ==
    Returned /\ ~last.existed /\ last.resp.kind = "response" /\ last.resp.status = status

\* C1: every download_image call that returns, on whichever path (existing file,
\* 429, other non-200, undersized body, successful write, caught exception),
\* returns a result in which exactly one of downloaded, skipped, failed is true.
C1_ExactlyOneFlag == Returned => Cardinality(Flags(last.out.result)) = 1

C1_Witness ==
    Returned /\ last.write = "write fails" /\ Flags(last.out.result) = {"failed"}

\* C2: when process_folder returns, its counters are non-negative, downloaded +
\* skipped + failed is the number of download_image calls it made, and that is
\* the sum of the sizes of the url sets of the records whose date parsed.
C2_CountersAddUp ==
    pc = "returned" =>
        /\ stats.downloaded >= 0 /\ stats.skipped >= 0 /\ stats.failed >= 0
        /\ stats.exif_updated >= 0
        /\ stats.downloaded + stats.skipped + stats.failed = audit.calls
        /\ audit.calls = audit.expected

C2_Witness ==
    pc = "returned" /\ stats.downloaded = 1 /\ stats.skipped = 1 /\ audit.calls = 2

\* C3, as stated: when the pipeline has run twice on the same folders and output
\* root with the remote answering as before, the second run reports no download
\* and reports every url the first run downloaded as skipped.
SecondRunDone == pc = "done" /\ report.runs = 2

DiskFailed ==
    Got(200) /\ last.resp.size > 5120 /\ last.write \in {"open fails", "write fails"}

C5_DiskFailureNotCounted ==
    DiskFailed =>
        /\ Flags(last.out.result) = {"failed"}
        /\ failCount[last.domain] = last.before[last.domain]
        /\ last.out.sleeps = <<>>

C5_Witness == DiskFailed /\ last.before[last.domain] = 2

\* C6: a 200 response with a body of at most 5120 bytes gives skipped with
\* exif_updated false (the codec is not called, even with do_exif), writes no
\* file, sleeps not at all and leaves the origin's counter as it was.
C6_UndersizedIsSkipped ==
    Got(200) /\ last.resp.size <= 5120 =>
        /\ Flags(last.out.result) = {"skipped"}
        /\ ~last.out.result.exif_updated /\ last.out.exifCalls = 0
        /\ fs = last.fsBefore
        /\ last.out.sleeps = <<>>
        /\ failCount = last.before

C6_Witness ==
    /\ Got(200) /\ last.resp.size <= 5120
    /\ last.do_exif /\ last.before[last.domain] = 2

\* C7: with a file at the resolved path the call gives skipped, issues no
\* request, sleeps not at all, changes no counter and no file; exif_updated is
\* what the codec returns when do_exif is set, and false, the codec not being
\* called, when it is not.
C7_ExistingIsSkipped ==
    Returned /\ last.existed =>
        /\ Flags(last.out.result) = {"skipped"}
        /\ last.out.requests = 0 /\ last.resp = NoRequest
        /\ last.out.sleeps = <<>>
        /\ failCount = last.before
        /\ fs = last.fsBefore
        /\ last.do_exif =>
              /\ last.out.exifCalls = 1
              /\ last.out.result.exif_updated
                    = (last.codec /\ suffix_lower(last.path) \in {".jpg", ".jpeg"})
        /\ ~last.do_exif =>
              last.out.exifCalls = 0 /\ ~last.out.result.exif_updated

C7_Witness ==
    Returned /\ last.existed /\ last.do_exif /\ last.out.result.exif_updated

\* C8: a 429 response adds exactly one to the origin's counter, sleeps the 429
\* backoff (8 s) once and nothing else, whatever the counter, and gives failed.
C8_On429 ==
    Got(429) =>
        /\ failCount = [last.before EXCEPT ![last.domain] = @ + 1]
        /\ last.out.sleeps = <<8000>>
        /\ Flags(last.out.result) = {"failed"}

C8_Witness == Got(429) /\ failCount[last.domain] >= 3

\* C9: a recorded failure (a status other than 200 and 429, a timeout, a
\* connection failure) adds one to the origin's counter and sleeps the
\* repeat-failure backoff (6 s) exactly when the new count is at least 3: on
\* the third consecutive failure and on every later one.
RecordedFailure ==
    /\ Returned /\ ~last.existed
    /\ \/ last.resp.kind = "response" /\ last.resp.status \notin {200, 429}
       \/ last.resp.kind \in {"Timeout", "ConnectionError"}

C9_RecordFailure ==
    RecordedFailure =>
        /\ failCount = [last.before EXCEPT ![last.domain] = @ + 1]
        /\ last.out.sleeps = IF failCount[last.domain] >= 3 THEN <<6000>> ELSE <<>>

C9_Witness ==
    RecordedFailure /\ failCount[last.domain] = 4 /\ last.out.sleeps = <<6000>>

\* C10: a 200 response with a body above 5120 bytes that is written stores the
\* body at the resolved path, sets the origin's counter to 0 whatever it was,
\* sleeps the polite delay (0.1 s) once, calls the codec only if do_exif is set,
\* and gives downloaded.
Written == Got(200) /\ last.resp.size > 5120 /\ last.write = "ok"

C10_Downloaded ==
    Written =>
        /\ fs = [last.fsBefore EXCEPT ![<<last.folder>> \o file_name(last.url)] =
                    last.resp.size]
        /\ failCount = [last.before EXCEPT ![last.domain] = 0]
        /\ last.out.sleeps = <<100>>
        /\ last.out.exifCalls = (IF last.do_exif THEN 1 ELSE 0)
        /\ Flags(last.out.result) = {"downloaded"}

C10_Witness == Written /\ last.before[last.domain] = 2 /\ last.do_exif

\* The scheme and the host of a url as written.
Scheme(url) == url[1]

Host(url) == url[4]

\* The counter download_image reads and writes for url.
CounterOf(fc, url) == fc[_extract_domain(url)]

\* The call recorded a failure, or reset the counter, for its url.
Counted11 == Returned /\ CounterOf(failCount, last.url) # CounterOf(last.before, last.url)

\* C11, as stated: the counter is keyed by scheme and host, so a call for a url
\* leaves alone the counter of every url of another origin, a url of the same
\* host and another scheme included.
C11_KeyedByOrigin ==
    Returned =>
        \A v \in FetchUrls :
            (Scheme(v) # Scheme(last.url) \/ Host(v) # Host(last.url)) =>
                CounterOf(failCount, v) = CounterOf(last.before, v)

\* C11, amended: the counter is keyed by the network location alone. A call
\* for a url leaves alone the counter of every url of another host, and
\* whatever it does to the counter of its url (a failure recorded, a reset by
\* a download) it does to that of every url of the same host, whatever the
\* scheme.
C11_KeyedByNetloc ==
    Returned =>
        \A v \in FetchUrls :
            /\ Host(v) # Host(last.url) =>
                  CounterOf(failCount, v) = CounterOf(last.before, v)
            /\ Host(v) = Host(last.url) =>
                  /\ CounterOf(failCount, v) = CounterOf(failCount, last.url)
                  /\ CounterOf(last.before, v) = CounterOf(last.before, last.url)

C11_Witness ==
    /\ Counted11 /\ Scheme(last.url) = "http:"
    /\ \E v \in FetchUrls :
          /\ Scheme(v) = "https:" /\ Host(v) = Host(last.url)
          /\ CounterOf(last.before, v) = 2
          /\ CounterOf(failCount, v) \in {0, 3}

\* C12: a call that ends failed on an exception of the GET (a timeout, a
\* connection failure, any other exception of the HTTP library) adds one to the
\* origin's counter, and a call that ends failed with the counter as it was
\* failed on a local disk-write error.
TransportError ==
    /\ Returned /\ ~last.existed
    /\ last.resp.kind \in {"Timeout", "ConnectionError", "RequestException"}

C12_TransportErrorRecorded ==
    /\ TransportError =>
          /\ Flags(last.out.result) = {"failed"}
          /\ failCount = [last.before EXCEPT ![last.domain] = @ + 1]
    /\ Returned /\ last.out.result.failed /\ failCount = last.before =>
          last.write \in {"open fails", "write fails"}

\* The call of the extractor has returned.
Extracted == applied.fn = "get_all_valid_images" /\ applied.done

\* The path of a url: its segments, the query left out.
PathOf(url) ==
    LET rest == SubSeq(url, 5, Len(url))
        stops == {i \in 1..Len(rest) : rest[i] \in {"?", "#"}}
        end == IF stops = {} THEN Len(rest) + 1
               ELSE CHOOSE i \in stops : \A j \in stops : i <= j
    IN  SubSeq(rest, 1, end - 1)

LowerHost(url) == Lower(Host(url))

\* The urls C13 is about: on the avatar CDN, on a UI-chrome CDN, under the
\* emoticon path, or an official sticker of the image CDN; any scheme, any case.
Excluded13(url) ==
    \/ LowerHost(url) \in {"avatars.plurk.com", "emos.plurk.com", "static.plurk.com"}
    \/ /\ LowerHost(url) = "s.plurk.com"
       /\ Len(PathOf(url)) >= 3 /\ SubSeq(PathOf(url), 1, 3) = <<"/", "emoticons", "/">>
    \/ /\ LowerHost(url) = "images.plurk.com"
       /\ Len(PathOf(url)) >= 2 /\ SubSeq(PathOf(url), 1, 2) = <<"/", "mx_">>

\* C13: whatever the text, the set get_all_valid_images returns holds no url
\* on the avatar CDN, on a UI-chrome CDN, under the emoticon path, or that is
\* an official sticker of the image CDN, with http as with https, in any
\* letter case, however often the url occurs in the text.
C13_ExcludedNeverExtracted ==
    Extracted => \A url \in applied.out : ~Excluded13(url)

\* C14: of the candidates on the video-thumbnail CDN, get_all_valid_images
\* drops those whose path ends in the file name default.jpg and keeps the
\* others (hqdefault.jpg and the like).
C14_OnlySmallestThumbnailDropped ==
    Extracted =>
        \A i \in 1..Len(applied.arg) :
            LET url == GENERAL_IMAGE_PATTERN(applied.arg[i])
                segments == split(PathOf(url), "/")
            IN  url # <<>> /\ LowerHost(url) = "i.ytimg.com" =>
                    (url \in applied.out <=> segments[Len(segments)] # <<"default", ".jpg">>)

\* The call of the parser is over.
ParsedFile == applied.fn = "parse_js_content" /\ applied.done

\* The text after the first "=", less one ";" at its end.
AfterEquals(text) ==
    LET eq == CHOOSE i \in 1..Len(text) : text[i] = "=" /\ \A j \in 1..(i - 1) : text[j] # "="
        after == SelectSeq(SubSeq(text, eq + 1, Len(text)), LAMBDA x : x # Blank)
    IN  IF after # <<>> /\ after[Len(after)] = ";"
        THEN SubSeq(after, 1, Len(after) - 1)
        ELSE after

C16_MissingDir ==
    run.dir = "missing" =>
        /\ pc \in {"returned", "done"}
        /\ audit.events = 1 /\ audit.said = <<"notfound">>
        /\ audit.calls = 0
        /\ audit.progress = <<>>
        /\ stats = ZeroStats

C16_Witness ==
    run.dir = "missing" /\ pc = "returned" /\ run.dirNo = 2 /\ plurks_stats.downloaded = 1

\* The posted values that are the fixed format, and those that are not: the
\* field is missing, is a string in another format, or is no string.
WellFormed ==
    { <<"str", "Mon", ",", "03", "Jun", "2024", "10:15:00", "GMT">>,
      <<"str", "Tue", ",", "04", "Jun", "2024", "23:59:59", "GMT">> }

Unparseable(posted) == posted \in PostedValues \ WellFormed

\* C17: reading a record whose posted field is missing or does not parse
\* makes no download_image call and changes no counter, and process_folder
\* goes on with the items of the same file.
C17_BadDateSkipsRecord ==
    [][(pc = "items" /\ run' # run /\ Unparseable(run'.posted)) =>
          /\ pc' = "items"
          /\ stats' = stats /\ plurks_stats' = plurks_stats
          /\ audit'.calls = audit.calls
          /\ last' = last /\ fs' = fs]_vars

\* C18: run_full_backup and process_folder never raise, whatever the elements
\* of the decoded arrays and whatever fails on the local disk during a fetch.
C18_NeverRaises == pc # "raised"

\* The folder named after the date of a posted value, and the last segment of
\* the path of a url.
DateOf(posted) ==
    posted[6] \o "-" \o (IF posted[5] = "Jun" THEN "06" ELSE "07") \o "-" \o posted[4]

LastSegment(url) ==
    LET segments == split(PathOf(url), "/")
    IN  segments[Len(segments)]

\* C19: a file the run downloads is stored at output_root / the date of the
\* record's posted value / the last segment of the url's path, the query left
\* out, and nowhere else; so the record posted Mon, 03 Jun 2024 with
\* https://img.example.com/a.jpg, answered 200 with a body above the threshold,
\* gives the one file 2024-06-03/a.jpg, counted as downloaded.
C19_StoredUnderDateAndName ==
    pc = "urls" /\ Returned /\ last.out.result.downloaded =>
        LET p == <<DateOf(run.posted)>> \o LastSegment(last.url)
        IN  /\ p \in DOMAIN fs /\ fs[p] = last.resp.size
            /\ \A q \in DOMAIN fs \ {p} : fs[q] = last.fsBefore[q]

\* C20: when process_folder returns for a folder of N files, on_progress has
\* been called N times, with (1, N), (2, N), ... (N, N): once after each file,
\* the files that parse to nothing included.
C20_ProgressPerFile ==
    pc = "returned" /\ run.dir = "exists" =>
        audit.progress = [i \in 1..run.total_files |-> <<i, run.total_files>>]

\* The notices the specification lists for on_event: folder not found, the
\* start of a file, a download, a failure.
Notices == {"notfound", "file", "downloaded", "failed"}

\* The result of a call is being counted, and it is skipped.
CountsSkipped == pc = "urls" /\ last.made /\ last' = NoCall /\ last.out.result.skipped

\* C21, as stated: counting a skipped result adds one to skipped and sends
\* nothing to on_log, whatever its exif_updated flag, and every message a
\* step sends to on_log is one of the four notices.
C21_SkippedIsSilent ==
    [][/\ CountsSkipped =>
             /\ stats'.skipped = stats.skipped + 1
             /\ audit'.events = audit.events /\ audit'.said = <<>>
       /\ audit' # audit =>
             \A i \in 1..Len(audit'.said) : audit'.said[i] \in Notices]_vars

\* C21, amended: counting a skipped result adds one to skipped and sends
\* nothing to on_log but the notice of a repaired timestamp, which it sends
\* exactly when exif_updated is set; and every message a step sends is one of
\* the four notices or that one.
C21_SkippedSendsRepairOnly ==
    [][/\ CountsSkipped =>
             /\ stats'.skipped = stats.skipped + 1
             /\ audit'.said = (IF last.out.result.exif_updated THEN <<"exif">> ELSE <<>>)
             /\ audit'.events = audit.events + Len(audit'.said)
       /\ audit' # audit =>
             \A i \in 1..Len(audit'.said) : audit'.said[i] \in Notices \cup {"exif"}]_vars

C21_Witness ==
    audit.said = <<"exif">> /\ stats.skipped = 1 /\ stats.exif_updated = 1

Counters == {"downloaded", "skipped", "exif_updated", "failed"}

\* C22: run_full_backup starts on the second folder only when process_folder
\* has returned for the first, whose statistics it holds as they were returned
\* until it merges; what it returns has, counter by counter, the sum of the
\* two results, and merge leaves its argument (the second result) as it was.
C22_MergedIsSum ==
    [][/\ (run.dirNo = 1 /\ run'.dirNo = 2) =>
             pc = "returned" /\ ~last.made /\ run.urls = {} /\ plurks_stats' = stats
       /\ (run.dirNo = 2 /\ pc # "returned") => plurks_stats' = plurks_stats
       /\ (pc # "done" /\ pc' = "done") =>
             /\ pc = "returned" /\ run.dirNo = 2
             /\ \A k \in Counters : plurks_stats'[k] = plurks_stats[k] + stats[k]
             /\ stats' = stats]_vars

C22_Witness ==
    /\ pc = "done" /\ stats.downloaded = 1 /\ stats.failed = 0
    /\ plurks_stats.downloaded = 1 /\ plurks_stats.failed = 1

\* C23: a call sleeps at most once, for one of the three durations: the polite
\* delay only when it ends downloaded, the 429 backoff only on a 429 response,
\* the repeat-failure backoff only on a failure that is recorded, is no 429,
\* and brings the counter to 3 or more; a call that ends skipped does not sleep.
C23_OneSleep ==
    Returned =>
        LET sleeps == last.out.sleeps
        IN  /\ Len(sleeps) <= 1
            /\ \A i \in 1..Len(sleeps) :
                   sleeps[i] \in {DELAY_BETWEEN_REQUESTS, BACKOFF_ON_429,
                                  BACKOFF_ON_REPEAT_FAIL}
            /\ sleeps = <<DELAY_BETWEEN_REQUESTS>> => last.out.result.downloaded
            /\ sleeps = <<BACKOFF_ON_429>> => Got(429)
            /\ sleeps = <<BACKOFF_ON_REPEAT_FAIL>> =>
                   /\ last.out.result.failed /\ ~Got(429)
                   /\ failCount[last.domain] = last.before[last.domain] + 1
                   /\ failCount[last.domain] >= REPEAT_FAIL_THRESHOLD
            /\ last.out.result.skipped => sleeps = <<>>

C23_Witness ==
    Got(429) /\ last.before[last.domain] >= REPEAT_FAIL_THRESHOLD
        /\ last.out.sleeps = <<BACKOFF_ON_429>>

\* The origin of a url: its scheme and its host (with the port, if any).
Origin(url) == <<Scheme(url), Host(url)>>

\* C25, as stated: whatever a call does (it may also raise), the counter of
\* every origin other than that of its url is after the call what it was
\* before; the counter of an origin is the one download_image uses for the
\* urls of that origin.
C25_OtherOriginsUntouched ==
    last.made =>
        \A v \in FetchUrls :
            Origin(v) # Origin(last.url) =>
                CounterOf(last.out.failCount, v) = CounterOf(last.before, v)

\* C25, amended: whatever a call does, the counter of every network location
\* other than that of its url is after the call what it was before.
C25_OtherNetlocsUntouched ==
    last.made =>
        /\ failCount = last.out.failCount
        /\ \A d \in Domains \ {last.domain} : failCount[d] = last.before[d]

C25_Witness ==
    /\ last.made /\ failCount[last.domain] # last.before[last.domain]
    /\ \E d \in Domains \ {last.domain} : failCount[d] = 2

\* C26: when a call has returned failed there is no file at the path it
\* resolved, so that the same call made again sends a request.
C26_FailedLeavesNoFile ==
    Returned /\ last.out.result.failed => fs[last.path] = Absent

\* C29: in every state of a run, in the statistics of the folder in progress
\* and in those held from the first folder or merged, exif_updated is at most
\* downloaded + skipped; a result with failed set has exif_updated clear;
\* counting a result adds at most one to exif_updated; and exif_updated stays
\* 0 through a run whose do_exif is false.
C29_RepairedBounded ==
    /\ \A st \in {stats, plurks_stats} :
           /\ st.exif_updated <= st.downloaded + st.skipped
           /\ (pc # "idle" /\ ~run.do_exif) => st.exif_updated = 0
    /\ Returned =>
           /\ last.out.result.failed => ~last.out.result.exif_updated
           /\ Count(stats, last.out.result).exif_updated <= stats.exif_updated + 1

C29_Witness ==
    /\ pc = "done" /\ run.do_exif
    /\ plurks_stats.exif_updated = 2 /\ plurks_stats.downloaded = 1
    /\ plurks_stats.skipped = 1

\* ------------------------------------------- the fetch engine, calls counted

\* The call ended in a failure that counts: a 429, another status that is not
\* 200, or an exception of the GET for which download_image records a failure.
CountedFailure(call) ==
    /\ ~call.out.raised /\ ~call.existed
    /\ \/ call.resp.kind = "response" /\ call.resp.status # 200
       \/ call.resp.kind \in {"Timeout", "ConnectionError", "Exception"}

\* The history after a call, by way of tally: for the urls related to the
\* call's url, 0 after a download, one more after a failure that counts, and
\* what it was after anything else.
Tally(tally, call, related, counts) ==
    [u \in FetchUrls |->
        IF u \notin related \/ call.out.raised THEN tally[u]
        ELSE IF call.out.result.downloaded THEN 0
        ELSE IF counts THEN tally[u] + 1
        ELSE tally[u]]

\* The urls of the origin, and of the network location, of url.
SameOrigin(url) == {u \in FetchUrls : Origin(u) = Origin(url)}

SameNetloc(url) == {u \in FetchUrls : _extract_domain(u) = _extract_domain(url)}

Tallied(h, call) ==
    [origin |-> Tally(h.origin, call, SameOrigin(call.url), CountedFailure(call)),
     netloc |-> Tally(h.netloc, call, SameNetloc(call.url), CountedFailure(call)),
     limited |-> Tally(h.limited, call, SameNetloc(call.url),
                       CountedFailure(call) /\ call.resp.status = 429)]

\* The urls of the calls that are counted: two origins of one host.
CountedUrls == {UrlA, UrlA2q}

\* Any caller, any arguments.
FetchCounted ==
    /\ pc = "idle" /\ ~last.made
    /\ \E url \in CountedUrls, folder \in Folders, do_exif \in BOOLEAN :
          Call(url, folder, do_exif)
    /\ UNCHANGED <<pc, run, stats, plurks_stats, audit, source, report, applied, streak,
                   names, gui>>

\* The caller takes the result and goes on; the call enters the history.
ReturnCounted ==
    /\ pc = "idle" /\ last.made
    /\ \A u \in FetchUrls : Tallied(streak, last).origin[u] <= MaxFail
    /\ last' = NoCall
    /\ streak' = Tallied(streak, last)
    /\ UNCHANGED <<fs, failCount, pc, run, stats, plurks_stats, audit, source, report,
                   applied, names, gui>>

NextCounted == FetchCounted \/ ReturnCounted

SpecCounted == Init /\ [][NextCounted]_vars

\* C24, as stated: between calls, the counter of each origin is the number of
\* the calls for that origin that ended in a 429, another non-200 status or a
\* recorded exception since the last call for that origin that ended
\* downloaded; and a non-200, non-429 response that follows two such calls
\* gets the repeat-failure backoff, 429 responses among them included.
C24_CounterIsOriginStreak ==
    /\ ~last.made => \A u \in FetchUrls : CounterOf(failCount, u) = streak.origin[u]
    /\ (Returned /\ ~last.existed /\ last.resp.kind = "response"
           /\ last.resp.status \notin {200, 429} /\ streak.origin[last.url] >= 2) =>
          last.out.sleeps = <<BACKOFF_ON_REPEAT_FAIL>>

\* C24, amended: the same of each network location, whose counter the origins
\* of one host share.
C24_CounterIsNetlocStreak ==
    /\ ~last.made => \A u \in FetchUrls : CounterOf(failCount, u) = streak.netloc[u]
    /\ (Returned /\ ~last.existed /\ last.resp.kind = "response"
           /\ last.resp.status \notin {200, 429} /\ streak.netloc[last.url] >= 2) =>
          last.out.sleeps = <<BACKOFF_ON_REPEAT_FAIL>>

C24_Witness ==
    /\ Got(404) /\ streak.netloc[last.url] = 2 /\ streak.limited[last.url] = 2
    /\ last.out.sleeps = <<BACKOFF_ON_REPEAT_FAIL>>

\* ------------------------------------- the fetch engine, file names followed

\* The urls of the calls whose names are followed: two that end in the same
\* file name, and one that has their last path segment and a "/" in its query.
NamedUrls == {UrlA, UrlA2q, UrlQA}

\* The history after a call that returned: its url is fetched for its folder,
\* and downloaded there if that is how the call ended.
Named(h, call) ==
    IF call.out.raised THEN h
    ELSE [fetched |-> h.fetched \cup {<<call.folder, call.url>>},
          downloaded |-> IF call.out.result.downloaded
                         THEN h.downloaded \cup {<<call.folder, call.url>>}
                         ELSE h.downloaded]

\* ... all of records of one date.
NamedFolders == {"2024-06-03"}

\* Any caller, for records of that date.
FetchNamed ==
    /\ pc = "idle" /\ ~last.made
    /\ \E url \in NamedUrls, folder \in NamedFolders, do_exif \in BOOLEAN :
          Call(url, folder, do_exif)
    /\ UNCHANGED <<pc, run, stats, plurks_stats, audit, source, report, applied, streak,
                   names, gui>>

\* The caller takes the result and goes on; the call enters the history.
ReturnNamed ==
    /\ pc = "idle" /\ last.made
    /\ last' = NoCall
    /\ names' = Named(names, last)
    /\ UNCHANGED <<fs, failCount, pc, run, stats, plurks_stats, audit, source, report,
                   applied, streak, gui>>

NextNamed == FetchNamed \/ ReturnNamed

SpecNamed == Init /\ [][NextNamed]_vars

\* The files of a date folder, and the last path segments of the urls fetched
\* for it.
FilesIn(folder) == {p \in DOMAIN fs : p[1] = folder /\ fs[p] # Absent}

SegmentsFetched(folder) == {LastSegment(f[2]) : f \in {g \in names.fetched : g[1] = folder}}

\* C27: a call finds a file, and returns skipped without a request, exactly
\* when the date folder holds a file named by the last path segment of its
\* url; of the urls of one date folder that have the same last path segment at
\* most one ends downloaded, and a call for one of them that follows the
\* download returns skipped without a request; and between calls a date
\* folder holds no more files than the urls fetched for it have distinct last
\* path segments.
C27_OneFilePerName ==
    /\ Returned =>
          (last.out.requests = 0 <=>
              last.fsBefore[<<last.folder>> \o LastSegment(last.url)] # Absent)
    /\ \A f \in names.downloaded, g \in names.downloaded :
          (f # g /\ f[1] = g[1]) => LastSegment(f[2]) # LastSegment(g[2])
    /\ (Returned /\ \E f \in names.downloaded :
                        f[1] = last.folder /\ LastSegment(f[2]) = LastSegment(last.url)) =>
          /\ last.out.result.skipped /\ last.out.requests = 0
    /\ ~last.made =>
          \A folder \in Folders :
              Cardinality(FilesIn(folder)) <= Cardinality(SegmentsFetched(folder))

\* --------------------------------------------------------------- the window

\* A worker thread is in run_full_backup between two fetches ("backup") or in
\* the read-modify-write of _domain_fail_count of a fetch ("fetch"); it has
\* queued _on_done and is returning ("posted"), or has raised and the thread
\* hook has queued _on_worker_crash ("crashed"); or the thread is no more
\* ("gone").
Working == {"backup", "fetch"}

Worker(i, at) == [gui EXCEPT !.workers[i] = at]

\* after(0, callback), called by a worker thread.
after(g, callback) == [g EXCEPT !.queue = Append(@, callback)]

\* The end of _start: the button is disabled, _running is set, a worker
\* thread is started.
Launch_enabled(g) ==
    [g EXCEPT !.running = TRUE, !.workers = Append(@, "backup")]

Launch(g) ==
    [g EXCEPT !.button = "disabled", !.running = TRUE, !.workers = Append(@, "backup")]

\* The Start button is pressed: a disabled button runs no command; _start
\* returns early when neither folder exists.
_start ==
    /\ gui.button = "normal"
    /\ Len(gui.workers) < MaxStarts
    /\ \E plurks_ok \in BOOLEAN, responses_ok \in BOOLEAN :
          gui' = IF ~plurks_ok /\ ~responses_ok THEN gui ELSE Launch(gui)
    /\ UNCHANGED <<fs, failCount, last, pc, run, stats, plurks_stats, audit, source,
                   report, applied, streak, names>>

\* A worker enters a fetch, and leaves it.
WorkerFetches ==
    /\ \E i \in 1..Len(gui.workers) :
          \/ gui.workers[i] = "backup" /\ gui' = Worker(i, "fetch")
          \/ gui.workers[i] = "fetch" /\ gui' = Worker(i, "backup")
    /\ UNCHANGED <<fs, failCount, last, pc, run, stats, plurks_stats, audit, source,
                   report, applied, streak, names>>

\* run_full_backup returns in a worker, which queues _on_done.
WorkerReturns ==
    /\ \E i \in 1..Len(gui.workers) :
          gui.workers[i] = "backup" /\ gui' = after(Worker(i, "posted"), "_on_done")
    /\ UNCHANGED <<fs, failCount, last, pc, run, stats, plurks_stats, audit, source,
                   report, applied, streak, names>>

\* run_full_backup raises in a worker: _thread_excepthook queues
\* _on_worker_crash.
WorkerRaises ==
    /\ \E i \in 1..Len(gui.workers) :
          gui.workers[i] \in Working
             /\ gui' = after(Worker(i, "crashed"), "_on_worker_crash")
    /\ UNCHANGED <<fs, failCount, last, pc, run, stats, plurks_stats, audit, source,
                   report, applied, streak, names>>

\* The thread of a worker that has queued its callback ends.
WorkerEnds ==
    /\ \E i \in 1..Len(gui.workers) :
          gui.workers[i] \in {"posted", "crashed"} /\ gui' = Worker(i, "gone")
    /\ UNCHANGED <<fs, failCount, last, pc, run, stats, plurks_stats, audit, source,
                   report, applied, streak, names>>

\* The main loop runs the next queued callback; both reset _running and enable
\* the button.
_on_done ==
    /\ gui.queue # <<>> /\ Head(gui.queue) = "_on_done"
    /\ gui' = [gui EXCEPT !.queue = Tail(@), !.running = FALSE, !.button = "normal"]
    /\ UNCHANGED <<fs, failCount, last, pc, run, stats, plurks_stats, audit, source,
                   report, applied, streak, names>>

_on_worker_crash ==
    /\ gui.queue # <<>> /\ Head(gui.queue) = "_on_worker_crash"
    /\ gui' = [gui EXCEPT !.queue = Tail(@), !.running = FALSE, !.button = "normal"]
    /\ UNCHANGED <<fs, failCount, last, pc, run, stats, plurks_stats, audit, source,
                   report, applied, streak, names>>

NextGui ==
    \/ _start \/ WorkerFetches \/ WorkerReturns \/ WorkerRaises \/ WorkerEnds
    \/ _on_done \/ _on_worker_crash

SpecGui == Init /\ [][NextGui]_vars

\* The worker threads there are, and those that are in run_full_backup.
Threads == {i \in 1..Len(gui.workers) : gui.workers[i] # "gone"}

InBackup == {i \in 1..Len(gui.workers) : gui.workers[i] \in Working}

\* C28, as stated: at any time there is at most one worker thread, the Start
\* button is disabled from the launch of a worker until _on_done or
\* _on_worker_crash runs, and no two workers are in the read-modify-write of
\* the failure counters together.
C28_OneWorkerThread ==
    /\ Cardinality(Threads) <= 1
    /\ (InBackup # {} \/ gui.queue # <<>>) => gui.button = "disabled"
    /\ Cardinality({i \in InBackup : gui.workers[i] = "fetch"}) <= 1

\* C28, amended: at any time at most one worker thread is in run_full_backup
\* (a worker that has queued its callback may still be there, ending, when the
\* next is launched), the Start button is disabled from the launch of a
\* worker until _on_done or _on_worker_crash runs, and no two workers are in
\* the read-modify-write of the failure counters together.
C28_OneWorkerInBackup ==
    /\ Cardinality(InBackup) <= 1
    /\ (InBackup # {} \/ gui.queue # <<>>) => gui.button = "disabled"
    /\ Len(gui.queue) <= 1
    /\ Cardinality({i \in InBackup : gui.workers[i] = "fetch"}) <= 1

C28_Witness ==
    /\ Len(gui.workers) = 3 /\ gui.workers[1] = "gone"
    /\ gui.workers[2] = "crashed" /\ gui.workers[3] = "fetch"

====
